---- MODULE Spec2Model ----
(***************************************************************************)
(* Model of the SGX derivatives downloader: the date-index estimator       *)
(* (util.estimate_date_index), the four-file batch download                *)
(* (util.download_files with check_existence and check_date_match), the    *)
(* range scheduler (util.download_files_within_range) and the two command  *)
(* line entry points (sgx_scrap.py, hello_world.py).                       *)
(*                                                                         *)
(* A date string "YYYY-MM-DD" is the triple <<Y, M, D>>; a datetime at     *)
(* midnight is its proleptic Gregorian ordinal (datetime.toordinal), so    *)
(* strptime and strftime are real conversions between the two.  An         *)
(* 8-digit token "YYYYMMDD" is the number Y*10000 + M*100 + D.             *)
(***************************************************************************)
EXTENDS Integers, Sequences, FiniteSets, TLC

VARIABLES
    start_date,               \* first command line date string
    end_date,                 \* second command line date string
    pc,                       \* control position
    current_date,             \* scheduler cursor, a datetime ordinal
    circuit_breaker_count,    \* consecutive failed attempts
    current_date_fails,       \* failed attempts on the cursor's date
    dates_for_manual_retries, \* entries flagged for manual retry, in order
    success_flag,             \* result of the last download_files call
    folder,                   \* downloads/<date>: the file names in each directory
    write_index,              \* position of the write loop of download_files
    call,                     \* record of the running download_files invocation
    attempts,                 \* history: download_files calls per date
    sleeps,                   \* history: delays slept per date, in order
    succeeded,                \* history: dates whose download returned 1
    exhausted_in_a_row,       \* history: dates in a row that used up their retries
    storage_faults,           \* history: storage faults injected so far
    every_fetch_good,         \* history: no fault and no deviating response so far
    date_string_in,           \* estimator harness: the date string given
    date_index_out,           \* estimator harness: <<index returned>>, or <<>>
    previous_call             \* estimator harness: <<date string, index>> of the call before

vars == <<start_date, end_date, pc, current_date, circuit_breaker_count,
          current_date_fails, dates_for_manual_retries, success_flag, folder,
          write_index, call, attempts, sleeps, succeeded, exhausted_in_a_row,
          storage_faults, every_fetch_good, date_string_in, date_index_out, previous_call>>

sched_vars == <<start_date, end_date, pc, current_date, circuit_breaker_count,
                current_date_fails, dates_for_manual_retries, success_flag, folder,
                write_index, call, attempts, sleeps, succeeded, exhausted_in_a_row,
                storage_faults, every_fetch_good>>

est_vars == <<date_string_in, date_index_out, previous_call>>

(***************************************************************************)
(* Calendar arithmetic of datetime (proleptic Gregorian).                  *)
(***************************************************************************)
is_leap(y) == (y % 4 = 0) /\ ((y % 100 # 0) \/ (y % 400 = 0))

days_in_month(y, m) ==
    IF m = 2 THEN (IF is_leap(y) THEN 29 ELSE 28)
    ELSE IF m \in {4, 6, 9, 11} THEN 30 ELSE 31

RECURSIVE days_before_month(_, _)
days_before_month(y, m) ==
    IF m = 1 THEN 0 ELSE days_before_month(y, m - 1) + days_in_month(y, m - 1)

days_before_year(y) ==
    (y - 1) * 365 + ((y - 1) \div 4) - ((y - 1) \div 100) + ((y - 1) \div 400)

\* datetime.strptime(s, "%Y-%m-%d"): the datetime (ordinal) of a date string.
strptime(s) == days_before_year(s[1]) + days_before_month(s[1], s[2]) + s[3]

\* The year holding ordinal n, searched upwards from a lower estimate.
RECURSIVE year_of(_, _)
year_of(n, y) == IF days_before_year(y + 1) >= n THEN y ELSE year_of(n, y + 1)

\* The month of year y holding its day number k (1-based), searched upwards.
RECURSIVE month_of(_, _, _)
month_of(y, k, m) ==
    IF days_before_month(y, m) + days_in_month(y, m) >= k THEN m
    ELSE month_of(y, k, m + 1)

\* datetime.strftime("%Y-%m-%d"): the date string of a datetime (ordinal).
strftime(n) ==
    LET y == year_of(n, ((n - 1) \div 366) + 1)
        k == n - days_before_year(y)
        m == month_of(y, k, 1)
    IN  <<y, m, k - days_before_month(y, m)>>

\* datetime.weekday(): 0 = Monday ... 6 = Sunday.
weekday(n) == (n + 6) % 7

\* date_string.replace("-", ""): the 8-digit token of a date string.
yyyymmdd(s) == s[1] * 10000 + s[2] * 100 + s[3]

(***************************************************************************)
(* util.estimate_date_index                                                *)
(***************************************************************************)
initial_date_string == <<2025, 1, 6>>

initial_index == 5849

\* Division truncating towards zero, as in C.
floordiv_trunc(a, b) == IF a >= 0 THEN a \div b ELSE -((-a) \div b)

\* Python's //: floor division.
floordiv(a, b) == a \div b

\* A variant that rounds the weeks up.
estimate_date_index_weeks_up(date_string) ==
    LET days_difference == strptime(date_string) - strptime(initial_date_string)
    IN  initial_index + days_difference - 2 * floordiv(days_difference + 6, 7)

estimate_date_index(date_string) ==
    LET initial_date    == strptime(initial_date_string)
        target_date     == strptime(date_string)
        days_difference == target_date - initial_date
        weekends        == 2 * floordiv(days_difference, 7)
    IN  initial_index + days_difference - weekends

(***************************************************************************)
(* util.url_generation, and what the server can answer                     *)
(***************************************************************************)
files_to_download ==
    <<"WEBPXTICK_DT.zip", "TickData_structure.dat", "TC.txt", "TC_structure.dat">>

url_generation(date_string) ==
    [i \in 1..4 |-> [index |-> estimate_date_index(date_string),
                     file  |-> files_to_download[i]]]

\* An absent 8-digit token in a Content-Disposition header.
NoToken == <<>>

\* The header of the file a url names: a structure file carries the word
\* "structure" and no date, a data file carries the publication date.
disposition_of(file, token) ==
    IF file \in {"TickData_structure.dat", "TC_structure.dat"}
    THEN [structure |-> TRUE, date |-> NoToken]
    ELSE [structure |-> FALSE, date |-> <<token>>]

\* The response of a healthy server publishing date_string at the url's index.
normal_response(url, date_string) ==
    [status_code |-> 200,
     url         |-> [error_page |-> FALSE, file |-> url.file],
     disposition |-> disposition_of(url.file, yyyymmdd(date_string))]

\* The other answers requests.get can return for a url: an HTTP error, the
\* redirect to the generic error page, a file published for the day before
\* (with or without the word "structure" in its name), a header without any
\* date, and a dated header on any file.
deviant_responses(url, date_string) ==
    LET stale == yyyymmdd(strftime(strptime(date_string) - 1))
        same  == [error_page |-> FALSE, file |-> url.file]
    IN  { [status_code |-> 404, url |-> same,
           disposition |-> [structure |-> FALSE, date |-> NoToken]],
          [status_code |-> 200,
           url |-> [error_page |-> TRUE, file |-> "CustomErrorPage.aspx"],
           disposition |-> [structure |-> FALSE, date |-> NoToken]],
          [status_code |-> 200, url |-> same,
           disposition |-> [structure |-> FALSE, date |-> <<stale>>]],
          [status_code |-> 200, url |-> same,
           disposition |-> [structure |-> TRUE, date |-> <<stale>>]],
          [status_code |-> 200, url |-> same,
           disposition |-> [structure |-> FALSE, date |-> NoToken]],
          [status_code |-> 200, url |-> same,
           disposition |-> [structure |-> FALSE,
                            date |-> <<yyyymmdd(date_string)>>]] }

\* At most this many of the four responses of one call deviate.
MaxDeviations == 2

RECURSIVE response_lists(_, _, _)
response_lists(urls, date_string, k) ==
    IF k = 0 THEN { [i \in 1..4 |-> normal_response(urls[i], date_string)] }
    ELSE LET less == response_lists(urls, date_string, k - 1)
         IN  less \cup UNION { { [b EXCEPT ![i] = r] :
                                     b \in less,
                                     r \in deviant_responses(urls[i], date_string) } :
                                 i \in 1..4 }

(***************************************************************************)
(* util.check_existence, util.check_date_match                             *)
(***************************************************************************)
\* The loop returns False at the first response that is not a 200 or that is
\* the error page: it returns True when there is none.
check_existence(responses) ==
    \A i \in 1..Len(responses) :
        /\ ~(responses[i].status_code # 200)
        /\ ~responses[i].url.error_page

\* The least element of a non-empty set of indices.
first_of(S) == CHOOSE i \in S : \A j \in S : i <= j

\* A variant without the exemption of the structure files.
check_date_match_no_exemption(date_string, responses) ==
    LET stops == { i \in 1..Len(responses) :
                     responses[i].disposition.date # <<yyyymmdd(date_string)>> }
    IN  IF stops = {} THEN "pass"
        ELSE IF responses[first_of(stops)].disposition.date = NoToken THEN "raise"
        ELSE "mismatch"

\* A variant that returns at the first response instead of the first mismatch.
check_date_match_first_only(date_string, responses) ==
    IF responses[1].disposition.structure THEN "pass"
    ELSE IF responses[1].disposition.date = NoToken THEN "raise"
    ELSE IF responses[1].disposition.date # <<yyyymmdd(date_string)>> THEN "mismatch"
    ELSE "pass"

\* The loop stops at the first response, in order, whose header lacks the
\* word "structure" and whose date is not the requested one: "mismatch", or
\* "raise" when re.search finds no 8-digit token there (None.group raises
\* AttributeError); "pass" when there is none.
check_date_match(date_string, responses) ==
    LET requested_date_formatted == yyyymmdd(date_string)
        stops == { i \in 1..Len(responses) :
                     /\ ~responses[i].disposition.structure
                     /\ responses[i].disposition.date # <<requested_date_formatted>> }
    IN  IF stops = {} THEN "pass"
        ELSE IF responses[first_of(stops)].disposition.date = NoToken THEN "raise"
        ELSE "mismatch"

\* Some response has a status other than 200, is the error page, or carries in
\* a header without the word "structure" a date other than the requested one.
fails_a_validation(date_string, responses) ==
    \E i \in 1..Len(responses) :
        \/ responses[i].status_code # 200
        \/ responses[i].url.error_page
        \/ /\ ~responses[i].disposition.structure
           /\ responses[i].disposition.date # NoToken
           /\ responses[i].disposition.date # <<yyyymmdd(date_string)>>

\* The tick data or the summary response (positions 1 and 3) carries a date
\* other than the requested one.
data_role_date_differs(date_string, responses) ==
    \E i \in {1, 3} :
        /\ responses[i].disposition.date # NoToken
        /\ responses[i].disposition.date # <<yyyymmdd(date_string)>>

(***************************************************************************)
(* Inputs and initial state                                                *)
(***************************************************************************)
\* The command line dates are drawn from WindowDays consecutive days
\* starting on Thursday 2025-01-09.
WindowFirst == <<2025, 1, 9>>

WindowDays == 6

WindowDates == { strftime(strptime(WindowFirst) + k) : k \in 0..(WindowDays - 1) }

\* open() raises at most this many times in one run.
MaxStorageFaults == 1

CIRCUIT_BREAKER_THRESHOLD == 10

MAX_CURRENT_DATE_RETRIES == 3

NoCall ==
    [date |-> <<>>, dir_was_empty |-> TRUE, requests_issued |-> 0, returned |-> 0,
     existence |-> "-", date_match |-> "-", invalid |-> FALSE, all_normal |-> FALSE,
     role_date_differs |-> FALSE, names |-> <<>>, written |-> 0,
     outcome |-> "-", reason |-> "-"]

Init ==
    /\ start_date \in WindowDates
    /\ end_date \in WindowDates
    /\ pc = "cli"
    /\ current_date = 0
    /\ circuit_breaker_count = 0
    /\ current_date_fails = 0
    /\ dates_for_manual_retries = <<>>
    /\ success_flag = 0
    /\ folder = [d \in WindowDates |-> {}]
    /\ write_index = 0
    /\ call = NoCall
    /\ attempts = [d \in WindowDates |-> 0]
    /\ sleeps = [d \in WindowDates |-> <<>>]
    /\ succeeded = {}
    /\ exhausted_in_a_row = 0
    /\ storage_faults = 0
    /\ every_fetch_good = TRUE
    /\ date_string_in = initial_date_string
    /\ date_index_out = <<>>
    /\ previous_call = <<>>

(***************************************************************************)
(* sgx_scrap.start_download_pipeline, hello_world.start_download_pipeline  *)
(***************************************************************************)
\* download_files_within_range up to the head of its loop.
enter_range ==
    /\ pc' = "loop"
    /\ current_date' = strptime(start_date)
    /\ circuit_breaker_count' = 0
    /\ current_date_fails' = 0
    /\ dates_for_manual_retries' = <<>>
    /\ UNCHANGED <<start_date, end_date, success_flag, folder, write_index,
                   call, attempts, sleeps, succeeded, exhausted_in_a_row,
                   storage_faults, every_fetch_good>>

\* A variant without the date sequence check, as in hello_world.py.
start_download_pipeline_unchecked ==
    /\ pc = "cli"
    /\ enter_range
    /\ UNCHANGED est_vars

sgx_scrap_start_download_pipeline ==
    /\ pc = "cli"
    /\ \/ /\ strptime(start_date) > strptime(end_date)
          /\ pc' = "parser_error"
          /\ UNCHANGED <<start_date, end_date, current_date,
                         circuit_breaker_count, current_date_fails,
                         dates_for_manual_retries, success_flag, folder,
                         write_index, call, attempts, sleeps, succeeded,
                         exhausted_in_a_row, storage_faults, every_fetch_good>>
       \/ /\ ~(strptime(start_date) > strptime(end_date))
          /\ enter_range
    /\ UNCHANGED est_vars

hello_world_start_download_pipeline ==
    /\ pc = "cli"
    /\ enter_range
    /\ UNCHANGED est_vars

(***************************************************************************)
(* util.download_files_within_range: the head of the loop                  *)
(***************************************************************************)
\* A variant that leaves the cursor where it is.
next_day_stays(n) == n

\* Lines 249 and 287: current_date += timedelta(days=1).
next_day(n) == n + 1

\* A variant that takes only Sunday for the weekend.
is_weekend_sunday_only(n) == weekday(n) > 5

\* Line 247: current_date.weekday() >= 5.
is_weekend(n) == weekday(n) >= 5

loop_exit ==
    /\ pc = "loop"
    /\ ~(current_date <= strptime(end_date))
    /\ pc' = "done"
    /\ UNCHANGED <<start_date, end_date, current_date, circuit_breaker_count,
                   current_date_fails, dates_for_manual_retries, success_flag, folder,
                   write_index, call, attempts, sleeps, succeeded,
                   exhausted_in_a_row, storage_faults, every_fetch_good>>
    /\ UNCHANGED est_vars

\* A variant recording the range from the day after the cursor.
circuit_breaker_from_next ==
    /\ pc = "loop"
    /\ current_date <= strptime(end_date)
    /\ circuit_breaker_count >= CIRCUIT_BREAKER_THRESHOLD
    /\ dates_for_manual_retries' =
           Append(dates_for_manual_retries,
                  [kind |-> "range", from |-> strftime(current_date + 1),
                   to |-> end_date])
    /\ pc' = "done"
    /\ UNCHANGED <<start_date, end_date, current_date, circuit_breaker_count,
                   current_date_fails, success_flag, folder, write_index, call,
                   attempts, sleeps, succeeded, exhausted_in_a_row, storage_faults,
                   every_fetch_good>>
    /\ UNCHANGED est_vars

\* A variant recording the whole range, from the start date.
circuit_breaker_from_start ==
    /\ pc = "loop"
    /\ current_date <= strptime(end_date)
    /\ circuit_breaker_count >= CIRCUIT_BREAKER_THRESHOLD
    /\ dates_for_manual_retries' =
           Append(dates_for_manual_retries,
                  [kind |-> "range", from |-> start_date, to |-> end_date])
    /\ pc' = "done"
    /\ UNCHANGED <<start_date, end_date, current_date, circuit_breaker_count,
                   current_date_fails, success_flag, folder, write_index, call,
                   attempts, sleeps, succeeded, exhausted_in_a_row, storage_faults,
                   every_fetch_good>>
    /\ UNCHANGED est_vars

circuit_breaker ==
    /\ pc = "loop"
    /\ current_date <= strptime(end_date)
    /\ circuit_breaker_count >= CIRCUIT_BREAKER_THRESHOLD
    /\ dates_for_manual_retries' =
           Append(dates_for_manual_retries,
                  [kind |-> "range", from |-> strftime(current_date), to |-> end_date])
    /\ pc' = "done"
    /\ UNCHANGED <<start_date, end_date, current_date, circuit_breaker_count,
                   current_date_fails, success_flag, folder, write_index, call,
                   attempts, sleeps, succeeded, exhausted_in_a_row, storage_faults, every_fetch_good>>
    /\ UNCHANGED est_vars

skip_weekend ==
    /\ pc = "loop"
    /\ current_date <= strptime(end_date)
    /\ ~(circuit_breaker_count >= CIRCUIT_BREAKER_THRESHOLD)
    /\ is_weekend(current_date)
    /\ current_date' = next_day(current_date)
    /\ UNCHANGED <<start_date, end_date, pc, circuit_breaker_count,
                   current_date_fails, dates_for_manual_retries, success_flag, folder,
                   write_index, call, attempts, sleeps, succeeded,
                   exhausted_in_a_row, storage_faults, every_fetch_good>>
    /\ UNCHANGED est_vars

\* Lines 253-258 and download_files up to its requests: the folder is made.
call_download_files ==
    /\ pc = "loop"
    /\ current_date <= strptime(end_date)
    /\ ~(circuit_breaker_count >= CIRCUIT_BREAKER_THRESHOLD)
    /\ ~is_weekend(current_date)
    /\ LET date_string == strftime(current_date)
       IN  /\ success_flag' = 0
           /\ attempts' = [attempts EXCEPT ![date_string] = @ + 1]
           /\ call' = [NoCall EXCEPT !.date = date_string,
                                     !.dir_was_empty = (folder[date_string] = {}),
                                     !.outcome = "running"]
    /\ pc' = "download_files"
    /\ UNCHANGED <<start_date, end_date, current_date, circuit_breaker_count,
                   current_date_fails, dates_for_manual_retries, folder, write_index,
                   sleeps, succeeded, exhausted_in_a_row, storage_faults, every_fetch_good>>
    /\ UNCHANGED est_vars

(***************************************************************************)
(* util.download_files                                                     *)
(***************************************************************************)
\* Lines 190-200 on the four responses of a call for date_string: the record
\* of the call once the two checks have run.
download_files_checks(date_string, responses) ==
    LET urls == url_generation(date_string)
        got == [NoCall EXCEPT
                  !.date = date_string,
                  !.requests_issued = 4,
                  !.returned = 4,
                  !.invalid = fails_a_validation(date_string, responses),
                  !.all_normal =
                      (responses = [i \in 1..4 |->
                                      normal_response(urls[i], date_string)]),
                  !.role_date_differs =
                      data_role_date_differs(date_string, responses)]
    IN  IF ~check_existence(responses)
        THEN [got EXCEPT !.existence = "fail", !.outcome = "return0",
                         !.reason = "not_found_or_error"]
        ELSE LET m == check_date_match(date_string, responses)
                 seen == [got EXCEPT !.existence = "ok", !.date_match = m]
             IN  CASE m = "mismatch" ->
                        [seen EXCEPT !.outcome = "return0", !.reason = "date_mismatch"]
                   [] m = "raise" ->
                        \* AttributeError, caught at line 259
                        [seen EXCEPT !.outcome = "raise", !.reason = "AttributeError"]
                   [] m = "pass" ->
                        [seen EXCEPT !.outcome = "running",
                                     !.names = [i \in 1..4 |-> responses[i].url.file]]

\* What the checks make of every list of responses the server can give,
\* for each date of the window.
checked_calls ==
    [d \in WindowDates |->
        { download_files_checks(d, responses) :
            responses \in response_lists(url_generation(d), d, MaxDeviations) }]

\* A variant with the try inside the loop: a fault on one url is logged, the
\* other urls are still requested and the files that came are written.
download_files_requests_fault_skipped ==
    /\ pc = "download_files"
    /\ \/ \E i \in 1..4 :
             /\ call' = [call EXCEPT
                            !.requests_issued = 4,
                            !.returned = 3,
                            !.reason = "transport",
                            !.names = [j \in 1..3 |->
                                files_to_download[IF j < i THEN j ELSE j + 1]]]
             /\ success_flag' = success_flag
             /\ pc' = "write"
             /\ write_index' = 1
             /\ every_fetch_good' = FALSE
       \/ \E checked \in checked_calls[call.date] :
             /\ call' = [checked EXCEPT !.dir_was_empty = call.dir_was_empty]
             /\ every_fetch_good' = (every_fetch_good /\ checked.all_normal)
             /\ IF checked.outcome = "running"
                THEN /\ success_flag' = success_flag
                     /\ pc' = "write"
                     /\ write_index' = 1
                ELSE /\ success_flag' = 0
                     /\ pc' = "ret"
                     /\ write_index' = write_index
    /\ UNCHANGED <<start_date, end_date, current_date, circuit_breaker_count,
                   current_date_fails, dates_for_manual_retries, folder, attempts,
                   sleeps, succeeded, exhausted_in_a_row, storage_faults>>
    /\ UNCHANGED est_vars

\* Lines 180-200: the four requests, one after the other, then the two checks.
download_files_requests ==
    /\ pc = "download_files"
    /\ \/ \E i \in 1..4 :
             \* requests.get raises RequestException on the i-th url
             /\ call' = [call EXCEPT !.requests_issued = i,
                                     !.returned = i - 1,
                                     !.outcome = "return0",
                                     !.reason = "transport"]
             /\ success_flag' = 0
             /\ pc' = "ret"
             /\ write_index' = write_index
             /\ every_fetch_good' = FALSE
       \/ \E checked \in checked_calls[call.date] :
             /\ call' = [checked EXCEPT !.dir_was_empty = call.dir_was_empty]
             /\ every_fetch_good' = (every_fetch_good /\ checked.all_normal)
             /\ IF checked.outcome = "running"
                THEN /\ success_flag' = success_flag
                     /\ pc' = "write"
                     /\ write_index' = 1
                ELSE /\ success_flag' = 0
                     /\ pc' = "ret"
                     /\ write_index' = write_index
    /\ UNCHANGED <<start_date, end_date, current_date, circuit_breaker_count,
                   current_date_fails, dates_for_manual_retries, folder, attempts,
                   sleeps, succeeded, exhausted_in_a_row, storage_faults>>
    /\ UNCHANGED est_vars

\* Lines 202-210: one pass of the write loop; after the fourth file, return 1.
download_files_write ==
    /\ pc = "write"
    /\ LET date_string == call.date
           file_name == call.names[write_index]
       IN  folder' = [folder EXCEPT ![date_string] = @ \cup {<<date_string, file_name>>}]
    /\ IF write_index = Len(call.names)
       THEN /\ call' = [call EXCEPT !.written = @ + 1, !.outcome = "return1",
                                    !.reason = "success"]
            /\ success_flag' = 1
            /\ pc' = "ret"
            /\ write_index' = write_index
       ELSE /\ call' = [call EXCEPT !.written = @ + 1]
            /\ success_flag' = success_flag
            /\ pc' = "write"
            /\ write_index' = write_index + 1
    /\ UNCHANGED <<start_date, end_date, current_date, circuit_breaker_count,
                   current_date_fails, dates_for_manual_retries, attempts, sleeps,
                   succeeded, exhausted_in_a_row, storage_faults, every_fetch_good>>
    /\ UNCHANGED est_vars

\* A variant without the except clause of line 259: the OSError ends the run.
download_files_write_fault_uncaught ==
    /\ pc = "write"
    /\ storage_faults < MaxStorageFaults
    /\ storage_faults' = storage_faults + 1
    /\ every_fetch_good' = FALSE
    /\ call' = [call EXCEPT !.outcome = "raise", !.reason = "OSError"]
    /\ success_flag' = 0
    /\ pc' = "done"
    /\ UNCHANGED <<start_date, end_date, current_date, circuit_breaker_count,
                   current_date_fails, dates_for_manual_retries, folder, write_index,
                   attempts, sleeps, succeeded, exhausted_in_a_row>>
    /\ UNCHANGED est_vars

\* Line 205: open() raises OSError (disk full, permissions); the exception
\* leaves download_files and is caught at line 259.
download_files_write_fault ==
    /\ pc = "write"
    /\ storage_faults < MaxStorageFaults
    /\ storage_faults' = storage_faults + 1
    /\ every_fetch_good' = FALSE
    /\ call' = [call EXCEPT !.outcome = "raise", !.reason = "OSError"]
    /\ success_flag' = 0
    /\ pc' = "ret"
    /\ UNCHANGED <<start_date, end_date, current_date, circuit_breaker_count,
                   current_date_fails, dates_for_manual_retries, folder, write_index,
                   attempts, sleeps, succeeded, exhausted_in_a_row>>
    /\ UNCHANGED est_vars

(***************************************************************************)
(* util.download_files_within_range: after the call (lines 265-288)        *)
(***************************************************************************)
\* A variant sleeping 2^(n-1).
backoff_delay_early(n) == 2 ^ (n - 1)

\* Line 275: sleep(2**current_date_fails).
backoff_delay(n) == 2 ^ n

\* A variant counting a date once, when its retries are used up.
count_failure_per_date(count, fails) ==
    IF fails < MAX_CURRENT_DATE_RETRIES THEN count ELSE count + 1

\* Line 268: circuit_breaker_count += 1, on every failed attempt; fails is
\* current_date_fails after line 267.
count_failure(count, fails) == count + 1

\* A variant that keeps the count over a success.
count_kept_after_success(count) == count

\* Line 284: circuit_breaker_count = 0.
count_after_success(count) == 0

\* A variant that never gives a date up.
may_retry_always(fails) == TRUE

\* A variant allowing one retry more.
may_retry_inclusive(fails) == fails <= MAX_CURRENT_DATE_RETRIES

\* Line 272: current_date_fails < MAX_CURRENT_DATE_RETRIES.
may_retry(fails) == fails < MAX_CURRENT_DATE_RETRIES

handle_result ==
    /\ pc = "ret"
    /\ LET date_string == strftime(current_date)
       IN  IF success_flag = 0
           THEN /\ circuit_breaker_count' =
                       count_failure(circuit_breaker_count, current_date_fails + 1)
                /\ succeeded' = succeeded
                /\ IF may_retry(current_date_fails + 1)
                   THEN \* sleep, then retry the same date
                        /\ current_date_fails' = current_date_fails + 1
                        /\ sleeps' = [sleeps EXCEPT ![date_string] =
                               Append(@, backoff_delay(current_date_fails + 1))]
                        /\ UNCHANGED <<current_date, dates_for_manual_retries,
                                       exhausted_in_a_row>>
                   ELSE /\ dates_for_manual_retries' =
                               Append(dates_for_manual_retries,
                                      [kind |-> "date", from |-> strftime(current_date),
                                       to |-> strftime(current_date)])
                        /\ current_date' = next_day(current_date)
                        /\ current_date_fails' = 0
                        /\ exhausted_in_a_row' = exhausted_in_a_row + 1
                        /\ sleeps' = sleeps
           ELSE /\ circuit_breaker_count' = count_after_success(circuit_breaker_count)
                /\ succeeded' = succeeded \cup {date_string}
                /\ current_date' = next_day(current_date)
                /\ current_date_fails' = 0
                /\ exhausted_in_a_row' = 0
                /\ UNCHANGED <<dates_for_manual_retries, sleeps>>
    /\ pc' = "loop"
    /\ call' = NoCall
    /\ write_index' = 0
    /\ UNCHANGED <<start_date, end_date, success_flag, folder, attempts,
                   storage_faults, every_fetch_good>>
    /\ UNCHANGED est_vars

Next ==
    \/ sgx_scrap_start_download_pipeline
    \/ hello_world_start_download_pipeline
    \/ loop_exit
    \/ circuit_breaker
    \/ skip_weekend
    \/ call_download_files
    \/ download_files_requests
    \/ download_files_write
    \/ download_files_write_fault
    \/ handle_result

Spec == Init /\ [][Next]_vars

\* The program is one thread that runs until it returns: a step that can be
\* taken is taken.
SpecFair == Init /\ [][Next]_vars /\ WF_vars(Next)

(***************************************************************************)
(* Estimator harness: estimate_date_index applied to dates on both sides   *)
(* of the anchor, one call after the other.                                *)
(***************************************************************************)
\* The dates given lie within EstSpan days of the anchor 2025-01-06.
EstSpan == 60

EstDates ==
    { strftime(strptime(initial_date_string) + k) : k \in (0 - EstSpan)..EstSpan }

\* The weekday after the day n (a datetime ordinal).
next_weekday(n) ==
    IF weekday(n) = 4 THEN n + 3 ELSE IF weekday(n) = 5 THEN n + 2 ELSE n + 1

InitEst ==
    /\ start_date = WindowFirst
    /\ end_date = WindowFirst
    /\ pc = "estimator"
    /\ current_date = 0
    /\ circuit_breaker_count = 0
    /\ current_date_fails = 0
    /\ dates_for_manual_retries = <<>>
    /\ success_flag = 0
    /\ folder = [d \in WindowDates |-> {}]
    /\ write_index = 0
    /\ call = NoCall
    /\ attempts = [d \in WindowDates |-> 0]
    /\ sleeps = [d \in WindowDates |-> <<>>]
    /\ succeeded = {}
    /\ exhausted_in_a_row = 0
    /\ storage_faults = 0
    /\ every_fetch_good = TRUE
    /\ date_string_in \in EstDates
    /\ date_index_out = <<>>
    /\ previous_call = <<>>

\* A call of estimate_date_index on the date given.
estimate ==
    /\ pc = "estimator"
    /\ date_index_out = <<>>
    /\ date_index_out' = <<estimate_date_index(date_string_in)>>
    /\ UNCHANGED <<date_string_in, previous_call>>
    /\ UNCHANGED sched_vars

\* A call on the weekday after the date of the call before.
estimate_next_weekday ==
    /\ pc = "estimator"
    /\ date_index_out # <<>>
    /\ next_weekday(strptime(date_string_in)) <= strptime(initial_date_string) + EstSpan
    /\ previous_call' = <<date_string_in, date_index_out[1]>>
    /\ date_string_in' = strftime(next_weekday(strptime(date_string_in)))
    /\ date_index_out' = <<estimate_date_index(date_string_in')>>
    /\ UNCHANGED sched_vars

NextEst == estimate \/ estimate_next_weekday

SpecEst == InitEst /\ [][NextEst]_vars

(***************************************************************************)
(* Properties                                                              *)
(***************************************************************************)
\* 2025-01-04 is a Saturday: a day is a Saturday or a Sunday when it lies a
\* whole number of weeks, or that and one day, after it.
saturday_or_sunday(d) == (strptime(d) - strptime(<<2025, 1, 4>>)) % 7 \in {0, 1}

in_range(d) ==
    /\ strptime(start_date) <= strptime(d)
    /\ strptime(d) <= strptime(end_date)

single_entries ==
    { i \in 1..Len(dates_for_manual_retries) : dates_for_manual_retries[i].kind = "date" }

range_entries ==
    { i \in 1..Len(dates_for_manual_retries) : dates_for_manual_retries[i].kind = "range" }

four_files(d) == { <<d, files_to_download[i]>> : i \in 1..4 }

\* C1: download_files writes no file before all four requests have returned
\* and both checks have passed on the four responses; when a response fails
\* a validation (status, error page or date) and the date's directory was
\* empty at the call, the directory is empty when the call has finished.
C1_NoWriteBeforeValidation ==
    /\ (pc = "write" \/ call.written > 0) =>
           /\ call.requests_issued = 4
           /\ call.returned = 4
           /\ call.existence = "ok"
           /\ call.date_match = "pass"
           /\ ~call.invalid
    /\ (pc = "ret" /\ call.invalid /\ call.dir_was_empty) =>
           /\ folder[call.date] = {}
           /\ call.written = 0
           /\ success_flag = 0

C1_Witness ==
    /\ pc = "ret"
    /\ call.invalid
    /\ call.reason = "date_mismatch"
    /\ call.dir_was_empty
    /\ folder[call.date] = {}

\* The circuit breaker has stopped the run.
tripped == pc = "done" /\ range_entries # {}

\* C2 (as claimed): the consecutive-failure counter advances once per failing
\* date, so the run is aborted only after CIRCUIT_BREAKER_THRESHOLD eligible
\* dates in a row have used up their retries.
C2_OncePerFailingDate ==
    /\ (pc = "loop" /\ current_date_fails = 0) =>
           circuit_breaker_count = exhausted_in_a_row
    /\ tripped => exhausted_in_a_row >= CIRCUIT_BREAKER_THRESHOLD

\* C2 (amended): the counter advances once per failed attempt and is not
\* reset by a weekend skip, so the run is aborted after ten failed attempts in
\* a row: three dates in a row that used up their retries and the first
\* attempt on the fourth.  The abort comes before the range end and appends
\* the span from that fourth date to the end date as the one range entry.
C2_OncePerFailedAttempt ==
    /\ pc \in {"loop", "download_files", "write", "ret", "done"} =>
           circuit_breaker_count =
               MAX_CURRENT_DATE_RETRIES * exhausted_in_a_row + current_date_fails
    /\ circuit_breaker_count <= CIRCUIT_BREAKER_THRESHOLD
    /\ tripped =>
           /\ circuit_breaker_count = CIRCUIT_BREAKER_THRESHOLD
           /\ exhausted_in_a_row * MAX_CURRENT_DATE_RETRIES + 1
                  = CIRCUIT_BREAKER_THRESHOLD
           /\ attempts[strftime(current_date)] = 1
           /\ current_date <= strptime(end_date)
           /\ range_entries = {Len(dates_for_manual_retries)}
           /\ dates_for_manual_retries[Len(dates_for_manual_retries)] =
                  [kind |-> "range", from |-> strftime(current_date), to |-> end_date]
    /\ (pc = "done" /\ ~tripped) => current_date > strptime(end_date)

\* Thursday and Friday fail, the weekend is skipped, Monday fails, and the
\* first attempt on Tuesday trips the breaker.
C2_Witness ==
    /\ tripped
    /\ start_date = <<2025, 1, 9>>
    /\ end_date = <<2025, 1, 14>>
    /\ current_date = strptime(<<2025, 1, 14>>)
    /\ Len(dates_for_manual_retries) = 4

\* C3 (as claimed): no date is recorded as unresolved, alone or inside a
\* range, after fewer than MAX_CURRENT_DATE_RETRIES attempts, and no date is
\* attempted more often.
C3_NeverFewerThanThree ==
    /\ \A d \in WindowDates : attempts[d] <= MAX_CURRENT_DATE_RETRIES
    /\ \A i \in single_entries :
           attempts[dates_for_manual_retries[i].from] = MAX_CURRENT_DATE_RETRIES
    /\ \A i \in range_entries : \A d \in WindowDates :
           ( /\ strptime(dates_for_manual_retries[i].from) <= strptime(d)
             /\ strptime(d) <= strptime(dates_for_manual_retries[i].to)
             /\ ~saturday_or_sunday(d) )
           => attempts[d] = MAX_CURRENT_DATE_RETRIES

\* C3 (amended): no date is attempted more than three times; a date recorded
\* as a single unresolved date was attempted exactly three times and never
\* succeeded; when the run ends, a weekday of the range that never succeeded
\* is either such a single date or lies in the trailing range, whose first
\* date was attempted once and whose other dates were never attempted.
C3_RetryBound ==
    /\ \A d \in WindowDates : attempts[d] <= MAX_CURRENT_DATE_RETRIES
    /\ \A i \in single_entries :
           /\ attempts[dates_for_manual_retries[i].from] = MAX_CURRENT_DATE_RETRIES
           /\ dates_for_manual_retries[i].from \notin succeeded
    /\ \A i \in range_entries : \A d \in WindowDates :
           ( /\ strptime(dates_for_manual_retries[i].from) <= strptime(d)
             /\ strptime(d) <= strptime(dates_for_manual_retries[i].to) )
           => attempts[d] = (IF d = dates_for_manual_retries[i].from THEN 1 ELSE 0)
    /\ pc = "done" =>
           \A d \in WindowDates :
               (in_range(d) /\ ~saturday_or_sunday(d) /\ d \notin succeeded) =>
                   \/ /\ attempts[d] = MAX_CURRENT_DATE_RETRIES
                      /\ \E i \in single_entries : dates_for_manual_retries[i].from = d
                   \/ /\ attempts[d] <= 1
                      /\ \E i \in range_entries :
                            strptime(dates_for_manual_retries[i].from) <= strptime(d)

\* A run in which one date used up its retries and the breaker later tripped.
C3_Witness ==
    /\ tripped
    /\ single_entries # {}
    /\ attempts[strftime(current_date)] = 1
    /\ \E i \in single_entries :
           attempts[dates_for_manual_retries[i].from] = MAX_CURRENT_DATE_RETRIES

\* Failed attempts on d that the scheduler has handled.
failed_attempts(d) ==
    attempts[d] - (IF d \in succeeded THEN 1 ELSE 0)
                - (IF pc \in {"download_files", "write", "ret"} /\ call.date = d
                   THEN 1 ELSE 0)

\* C4 (as claimed): a date that fails every attempt is slept on for 2, 4 and
\* 8 time units, in that order.
C4_DelaysTwoFourEight ==
    \A i \in single_entries :
        sleeps[dates_for_manual_retries[i].from] = <<2, 4, 8>>

\* C4 (amended): the k-th failed attempt on a date is followed by a sleep of
\* 2^k time units for k = 1 and k = 2 only; nothing is slept after the third
\* failure nor after a success, so a date that used up its retries was slept
\* on for 2 and then 4 time units.
C4_DelaysTwoFour ==
    /\ \A d \in WindowDates :
           /\ Len(sleeps[d]) = (IF failed_attempts(d) < 2 THEN failed_attempts(d) ELSE 2)
           /\ \A k \in 1..Len(sleeps[d]) : sleeps[d][k] = 2 ^ k
    /\ \A i \in single_entries :
           sleeps[dates_for_manual_retries[i].from] = <<2, 4>>

\* A date that failed twice and then succeeded, and one that failed three times.
C4_Witness ==
    /\ pc = "done"
    /\ \E d \in succeeded : sleeps[d] = <<2, 4>>
    /\ \E i \in single_entries :
           sleeps[dates_for_manual_retries[i].from] = <<2, 4>>

\* C5: once a call of download_files has finished, by return or by raising,
\* the date's directory holds all four files or none, and 1 is returned only
\* when four distinct files were written.
C5_AllOrNothing ==
    pc = "ret" =>
        /\ folder[call.date] = {} \/ folder[call.date] = four_files(call.date)
        /\ success_flag = 1 =>
               (call.written = 4 /\ Cardinality(folder[call.date]) = 4)

\* C6: download_files is never called for a Saturday or a Sunday (for
\* 2025-01-10..2025-01-13 only the Friday and the Monday are attempted), and
\* the step of the loop that meets one moves the cursor on by one day and
\* leaves the two counters, the unresolved list and the attempts as they were.
C6_WeekendExclusion ==
    /\ [](\A d \in WindowDates : saturday_or_sunday(d) => attempts[d] = 0)
    /\ []((pc = "done" /\ start_date = <<2025, 1, 10>> /\ end_date = <<2025, 1, 13>>)
            => { d \in WindowDates : attempts[d] > 0 }
                  = {<<2025, 1, 10>>, <<2025, 1, 13>>})
    /\ [][(pc = "loop" /\ current_date <= strptime(end_date)
                       /\ saturday_or_sunday(strftime(current_date)))
           => /\ pc' = "loop"
              /\ current_date' = current_date + 1
              /\ current_date_fails' = current_date_fails
              /\ circuit_breaker_count' = circuit_breaker_count
              /\ dates_for_manual_retries' = dates_for_manual_retries
              /\ attempts' = attempts
              /\ folder' = folder]_vars

\* The cursor stands on the Sunday with the failures of Thursday and Friday
\* still counted.
C6_Witness ==
    /\ pc = "loop"
    /\ current_date = strptime(<<2025, 1, 12>>)
    /\ current_date <= strptime(end_date)
    /\ circuit_breaker_count = 6
    /\ attempts[<<2025, 1, 11>>] = 0

\* C7 (as claimed): called with a start date after the end date,
\* download_files_within_range reports an ordering failure rather than running.
C7_OrderingReported ==
    (strptime(start_date) > strptime(end_date) /\ pc # "cli") => pc = "parser_error"

\* C7 (amended): called with a start date after the end date,
\* download_files_within_range attempts nothing, writes nothing and ends as a
\* normal run with an empty unresolved list; the ordering failure is reported
\* by sgx_scrap.start_download_pipeline, which then does not call it.
C7_OrderingRejectedByCaller ==
    /\ [](strptime(start_date) > strptime(end_date) =>
             /\ pc \in {"cli", "parser_error", "loop", "done"}
             /\ \A d \in WindowDates : attempts[d] = 0 /\ folder[d] = {}
             /\ dates_for_manual_retries = <<>>)
    /\ [][(sgx_scrap_start_download_pipeline
             /\ strptime(start_date) > strptime(end_date))
           => pc' = "parser_error"]_vars

C7_Witness ==
    /\ pc = "done"
    /\ start_date = <<2025, 1, 14>>
    /\ end_date = <<2025, 1, 9>>
    /\ dates_for_manual_retries = <<>>

\* C8: for a weekday d on either side of the anchor, the index of the weekday
\* after d is the index of d plus one.
C8_Successor ==
    (previous_call # <<>> /\ ~saturday_or_sunday(previous_call[1])) =>
        /\ date_index_out = <<previous_call[2] + 1>>
        /\ ~saturday_or_sunday(date_string_in)
        /\ strptime(date_string_in) - strptime(previous_call[1]) \in {1, 3}

\* From Friday 2024-12-27 to Monday 2024-12-30, before the anchor.
C8_Witness ==
    /\ previous_call # <<>>
    /\ previous_call[1] = <<2024, 12, 27>>
    /\ date_string_in = <<2024, 12, 30>>
    /\ date_index_out = <<previous_call[2] + 1>>

\* Weekdays from the anchor up to, not including, the day n; negative for a
\* day before the anchor.
RECURSIVE weekdays_elapsed(_)
weekdays_elapsed(n) ==
    LET anchor == strptime(<<2025, 1, 6>>)
    IN  IF n = anchor THEN 0
        ELSE IF n > anchor
             THEN weekdays_elapsed(n - 1)
                    + (IF saturday_or_sunday(strftime(n - 1)) THEN 0 ELSE 1)
             ELSE weekdays_elapsed(n + 1)
                    - (IF saturday_or_sunday(strftime(n)) THEN 0 ELSE 1)

\* C9: for a weekday d the index is 5849 plus the signed number of weekdays
\* from 2025-01-06 to d, which is 5849 + days - 2 * floor(days / 7);
\* 2025-01-09 gives 5852, 2025-01-10 gives 5853 and 2025-01-13 gives 5854.
C9_ReferenceValue ==
    (date_index_out # <<>> /\ ~saturday_or_sunday(date_string_in)) =>
        LET days == strptime(date_string_in) - strptime(<<2025, 1, 6>>)
        IN  /\ date_index_out[1] = 5849 + weekdays_elapsed(strptime(date_string_in))
            /\ date_index_out[1] = 5849 + days - 2 * (days \div 7)
            /\ date_string_in = <<2025, 1, 9>> => date_index_out[1] = 5852
            /\ date_string_in = <<2025, 1, 10>> => date_index_out[1] = 5853
            /\ date_string_in = <<2025, 1, 13>> => date_index_out[1] = 5854

C9_Witness ==
    /\ date_string_in = <<2025, 1, 13>>
    /\ date_index_out = <<5854>>

\* C10: when every fetch of a run succeeds with matching dates, the run ends
\* with one attempt and the four files for each weekday of the range, no
\* attempt and no file for any other day, and an empty unresolved list.
C10_AllSuccess ==
    (pc = "done" /\ every_fetch_good) =>
        /\ dates_for_manual_retries = <<>>
        /\ \A d \in WindowDates :
               IF in_range(d) /\ ~saturday_or_sunday(d)
               THEN /\ attempts[d] = 1
                    /\ folder[d] = four_files(d)
                    /\ Cardinality(folder[d]) = 4
               ELSE attempts[d] = 0 /\ folder[d] = {}

C10_Witness ==
    /\ pc = "done"
    /\ every_fetch_good
    /\ start_date = <<2025, 1, 9>>
    /\ end_date = <<2025, 1, 9>>
    /\ Cardinality(folder[<<2025, 1, 9>>]) = 4
    /\ dates_for_manual_retries = <<>>

\* Dates of the window from the first date of range entry i to its last.
range_dates(i) ==
    { d \in WindowDates :
        /\ strptime(dates_for_manual_retries[i].from) <= strptime(d)
        /\ strptime(d) <= strptime(dates_for_manual_retries[i].to) }

\* C11 (as claimed): when the circuit breaker trips, no date of the recorded
\* range has been attempted, the range entry is the last entry of the list and
\* the only one, and nothing is slept between the failure that brings the
\* counter to the threshold and the abort.
C11_RangeNeverAttempted ==
    tripped =>
        /\ range_entries = {Len(dates_for_manual_retries)}
        /\ \A d \in range_dates(Len(dates_for_manual_retries)) :
               attempts[d] = 0 /\ sleeps[d] = <<>>

\* C11 (amended): when the circuit breaker trips, the range entry is the last
\* entry of the list and the only one, and it runs from the cursor to the end
\* date; its first date is the date whose first attempt brought the counter to
\* the threshold, attempted once and slept on once for 2 time units, and its
\* other dates were never attempted.  Once the counter is at the threshold no
\* fetch is made: the failure is followed by that one sleep and the abort.
C11_RangeFromTriggeringDate ==
    /\ tripped =>
           /\ range_entries = {Len(dates_for_manual_retries)}
           /\ dates_for_manual_retries[Len(dates_for_manual_retries)] =
                  [kind |-> "range", from |-> strftime(current_date), to |-> end_date]
           /\ \A d \in range_dates(Len(dates_for_manual_retries)) :
                  IF d = strftime(current_date)
                  THEN attempts[d] = 1 /\ sleeps[d] = <<2>> /\ d \notin succeeded
                  ELSE attempts[d] = 0 /\ sleeps[d] = <<>> /\ folder[d] = {}
    /\ circuit_breaker_count >= CIRCUIT_BREAKER_THRESHOLD =>
           /\ pc \in {"loop", "done"}
           /\ call = NoCall
           /\ current_date <= strptime(end_date)
           /\ current_date_fails = 1
           /\ attempts[strftime(current_date)] = 1
           /\ sleeps[strftime(current_date)] = <<2>>
           /\ pc = "done" => tripped

\* The breaker has tripped on the Tuesday after the Thursday, the Friday and
\* the Monday used up their retries.
C11_Witness ==
    /\ tripped
    /\ circuit_breaker_count = CIRCUIT_BREAKER_THRESHOLD
    /\ dates_for_manual_retries[Len(dates_for_manual_retries)] =
           [kind |-> "range", from |-> <<2025, 1, 14>>, to |-> <<2025, 1, 14>>]
    /\ attempts[<<2025, 1, 14>>] = 1
    /\ sleeps[<<2025, 1, 14>>] = <<2>>

\* C12: when the tick data or the summary response (positions 1 and 3 of the
\* address order) carries an 8-digit date other than the requested one,
\* download_files returns 0 and writes no file, whatever else the header of
\* the response holds.
C12_DateMatchByRole ==
    call.role_date_differs =>
        /\ pc # "write"
        /\ call.written = 0
        /\ call.names = <<>>
        /\ pc = "ret" => (success_flag = 0 /\ call.outcome = "return0")

\* C13: every call of download_files ends by returning 1 or 0, whatever the
\* four responses are, a response without any 8-digit date among them: no call
\* ends by raising into download_files_within_range.
C13_AlwaysReturns ==
    pc = "ret" => call.outcome \in {"return0", "return1"}

\* C14: when the i-th of the four requests raises a transport fault,
\* download_files returns 0 at once: the requests after the i-th are not
\* issued, neither check is run, and no file is written for the date.
C14_TransportFault ==
    call.reason = "transport" =>
        /\ pc = "ret"
        /\ call.outcome = "return0"
        /\ success_flag = 0
        /\ call.requests_issued \in 1..4
        /\ call.returned = call.requests_issued - 1
        /\ call.existence = "-"
        /\ call.date_match = "-"
        /\ call.names = <<>>
        /\ call.written = 0
        /\ call.dir_was_empty => folder[call.date] = {}

\* The second request raised: two were issued, one had returned.
C14_Witness ==
    /\ pc = "ret"
    /\ call.reason = "transport"
    /\ call.requests_issued = 2
    /\ call.returned = 1
    /\ call.dir_was_empty
    /\ folder[call.date] = {}

\* C15: the step of the loop after a call of download_files: after a success
\* both counters are zero and the cursor is one day further; after a failure
\* that leaves the per-date counter below 3 the counter is one higher, the
\* cursor and the unresolved list are as they were, and a call made next is
\* for the same date, the date of the cursor.
C15_SchedulerStep ==
    /\ [][pc = "ret" =>
            /\ pc' = "loop"
            /\ success_flag = 1 =>
                   /\ current_date_fails' = 0
                   /\ circuit_breaker_count' = 0
                   /\ current_date' = current_date + 1
            /\ (success_flag = 0 /\ current_date_fails + 1 < 3) =>
                   /\ current_date_fails' = current_date_fails + 1
                   /\ current_date' = current_date
                   /\ dates_for_manual_retries' = dates_for_manual_retries]_vars
    /\ [][pc' = "download_files" =>
            (call'.date = strftime(current_date) /\ current_date' = current_date)]_vars

\* Thursday failed twice and then succeeded, which reset both counters;
\* Friday has failed twice and the cursor still stands on it.
C15_Witness ==
    /\ pc = "loop"
    /\ succeeded = {<<2025, 1, 9>>}
    /\ attempts[<<2025, 1, 9>>] = 3
    /\ current_date = strptime(<<2025, 1, 10>>)
    /\ attempts[<<2025, 1, 10>>] = 2
    /\ current_date_fails = 2
    /\ circuit_breaker_count = 2
    /\ dates_for_manual_retries = <<>>

\* C16: the step after the third failed attempt on a date appends the date
\* once to the unresolved list, resets the per-date counter and moves the
\* cursor on; whatever way a call of download_files failed, by returning 0 or
\* by raising, the loop goes on; the run ends with the cursor at or before the
\* end date only when the circuit breaker has tripped, which takes more than
\* one failing date.
C16_GracefulDegradation ==
    /\ [][(pc = "ret" /\ success_flag = 0 /\ current_date_fails + 1 = 3) =>
            /\ dates_for_manual_retries' =
                   Append(dates_for_manual_retries,
                          [kind |-> "date", from |-> strftime(current_date),
                           to |-> strftime(current_date)])
            /\ current_date_fails' = 0
            /\ current_date' = current_date + 1]_vars
    /\ [][(pc = "ret" /\ call.outcome \in {"return0", "raise"}) =>
            (pc' = "loop" /\ success_flag = 0)]_vars
    /\ []((pc = "done" /\ current_date <= strptime(end_date)) =>
            /\ tripped
            /\ circuit_breaker_count >= 10
            /\ Cardinality(single_entries) >= 3)
    /\ [](\A i, j \in single_entries :
            dates_for_manual_retries[i].from = dates_for_manual_retries[j].from
                => i = j)

\* Thursday used up its retries, one of them lost to an OSError, and the run
\* went on to fetch Friday and to end at the range end.
C16_Witness ==
    /\ pc = "done"
    /\ ~tripped
    /\ storage_faults = 1
    /\ dates_for_manual_retries =
           <<[kind |-> "date", from |-> <<2025, 1, 9>>, to |-> <<2025, 1, 9>>]>>
    /\ succeeded = {<<2025, 1, 10>>}
    /\ current_date > strptime(end_date)

\* The dates recorded one by one as unresolved.
single_dates == { dates_for_manual_retries[i].from : i \in single_entries }

\* C17: the dates passed to download_files never go back: a call is for the
\* date of the cursor, no date after it has been attempted, so the attempts
\* on one date follow one another, and a date that has succeeded or has been
\* recorded as unresolved lies before the cursor and is not called again.
C17_SequentialResolution ==
    LET resolved == succeeded \cup single_dates
    IN  /\ pc \in {"download_files", "write", "ret"} =>
               /\ strptime(call.date) = current_date
               /\ call.date \notin resolved
               /\ attempts[call.date] >= 1
        /\ pc # "cli" =>
               /\ \A d \in WindowDates :
                      attempts[d] > 0 => strptime(d) <= current_date
               /\ \A d \in resolved : strptime(d) < current_date
        /\ succeeded \cap single_dates = {}

\* The second call for Friday, after Thursday succeeded.
C17_Witness ==
    /\ pc = "download_files"
    /\ call.date = <<2025, 1, 10>>
    /\ attempts[<<2025, 1, 10>>] = 2
    /\ attempts[<<2025, 1, 9>>] = 1
    /\ succeeded = {<<2025, 1, 9>>}

\* The dates covered by a range entry of the unresolved list.
trailing_range_dates == UNION { range_dates(i) : i \in range_entries }

\* C18: when download_files_within_range has ended, every weekday from the
\* start date to the end date is in exactly one of three classes: fetched
\* with success (its four files are stored), listed alone as unresolved, or
\* inside the trailing range; the dates listed alone are in chronological
\* order without repetition, and no date that succeeded is listed.
C18_Accounting ==
    pc = "done" =>
        /\ \A d \in WindowDates :
               (in_range(d) /\ ~saturday_or_sunday(d)) =>
                   /\ d \in succeeded \cup single_dates \cup trailing_range_dates
                   /\ ~(d \in succeeded /\ d \in single_dates)
                   /\ ~(d \in succeeded /\ d \in trailing_range_dates)
                   /\ ~(d \in single_dates /\ d \in trailing_range_dates)
                   /\ d \in succeeded => folder[d] = four_files(d)
        /\ \A i, j \in single_entries :
               i < j => strptime(dates_for_manual_retries[i].from)
                           < strptime(dates_for_manual_retries[j].from)
        /\ \A i \in single_entries : \A j \in range_entries : i < j
        /\ succeeded \cup single_dates \subseteq
               { d \in WindowDates : in_range(d) /\ ~saturday_or_sunday(d) }

\* Of the four weekdays from Thursday to Tuesday the Friday was given up and
\* the other three were fetched.
C18_Witness ==
    /\ pc = "done"
    /\ start_date = <<2025, 1, 9>>
    /\ end_date = <<2025, 1, 14>>
    /\ succeeded = {<<2025, 1, 9>>, <<2025, 1, 13>>, <<2025, 1, 14>>}
    /\ single_dates = {<<2025, 1, 10>>}
    /\ range_entries = {}

\* The calls of download_files made so far on the days of S.
RECURSIVE total_attempts(_)
total_attempts(S) ==
    IF S = {} THEN 0
    ELSE LET d == CHOOSE x \in S : TRUE
         IN  attempts[d] + total_attempts(S \ {d})

weekdays_in_range == { d \in WindowDates : in_range(d) /\ ~saturday_or_sunday(d) }

\* C19: for every range and every sequence of outcomes of the calls,
\* download_files_within_range comes to its end: a pass of the loop that makes
\* no call moves the cursor on or leaves the loop, and the step after a call
\* moves the cursor on or raises the per-date counter, which stays below 3;
\* in all, download_files is called at most 3 times per weekday of the range.
C19_Termination ==
    /\ <>(pc \in {"done", "parser_error"})
    /\ [][(pc = "loop" /\ pc' # "download_files") =>
            \/ pc' = "done"
            \/ pc' = "loop" /\ current_date' = current_date + 1]_vars
    /\ [][pc = "ret" =>
            \/ current_date' = current_date + 1
            \/ /\ current_date' = current_date
               /\ current_date_fails' = current_date_fails + 1
               /\ current_date_fails' < 3]_vars
    /\ [](total_attempts(WindowDates) <= 3 * Cardinality(weekdays_in_range))

\* A run over the four weekdays that made the most calls a run without a
\* trip can make, and ended.
C19_Witness ==
    /\ pc = "done"
    /\ start_date = <<2025, 1, 9>>
    /\ end_date = <<2025, 1, 14>>
    /\ Cardinality(weekdays_in_range) = 4
    /\ total_attempts(WindowDates) = 10

\* C20: whenever the loop is at the head of a pass, the per-date counter is
\* in 0..2, the consecutive-failure counter is in 0..10 and not below the
\* per-date counter, and after a success the consecutive-failure counter is 0.
C20_CounterInvariants ==
    pc = "loop" =>
        /\ current_date_fails \in 0..2
        /\ circuit_breaker_count \in 0..10
        /\ circuit_breaker_count >= current_date_fails
        /\ success_flag = 1 => (circuit_breaker_count = 0 /\ current_date_fails = 0)

\* The head of the pass after the second failure on Monday: Thursday
\* succeeded at its second attempt, which set the count back to 0, Friday
\* used up its retries and the weekend was skipped.
C20_Witness ==
    /\ pc = "loop"
    /\ succeeded = {<<2025, 1, 9>>}
    /\ attempts[<<2025, 1, 9>>] = 2
    /\ current_date = strptime(<<2025, 1, 13>>)
    /\ current_date_fails = 2
    /\ circuit_breaker_count = 5
    /\ success_flag = 0

====
